---- MODULE Spec2Model ----
(***************************************************************************)
(* A model of the ToolSession durable object                               *)
(* (src/src/durable-objects/ToolSession.ts): the stored session records,   *)
(* the instance's set of live WebSockets, and the tool-execution relay     *)
(* handlers that run concurrently inside one instance.                     *)
(*                                                                         *)
(* Scheduling.  A durable object runs one JavaScript event at a time.  An  *)
(* `await` of a storage operation (storage.get/put/delete/list) does not   *)
(* let another event in: the runtime's input gate is closed while storage  *)
(* operations are pending.  An `await` of anything else (fetch, a stream   *)
(* read, request.json()) does.  So every action below is the piece of a    *)
(* handler between two such non-storage awaits, and the actions interleave *)
(* freely.                                                                 *)
(*                                                                         *)
(* Time is counted in hours (the sweeper's threshold is one hour).         *)
(***************************************************************************)
EXTENDS Integers, Sequences, FiniteSets, TLC

\* ------------------------------------------------------------- bounds
MaxTime == 2
MaxExecs == 2
NumConns == 2
NumSessions == 2

Sessions == 1..NumSessions
Conns == 1..NumConns
ExecIds == 1..MaxExecs
Time == 0..MaxTime

\* ---------------------------------------------------- program constants
\* `endTime?: string` of an execution that has not ended
NoTime == -1
\* the sweeper's idle threshold, 60 * 60 * 1000 ms, in hours
OneHour == 1
\* the progress the acknowledgment carries
AckProgress == 5
\* the progress a completed execution is given
FullProgress == 100

VARIABLES
    now,         \* Date.now(), in hours
    storage,     \* state.storage: session id -> SessionData, for the keys present
    conn,        \* every server-side WebSocket: its state and the sessionId its listeners closed over
    websockets,  \* this.websockets
    task,        \* every handleToolExecutionRequest call: where it stands, its locals, and
                 \* (`seen`) the complete and error events it has delivered for its execution
    upd,         \* the updateSession call that is reading its request body, if any
    alarmAt,     \* the alarm that is set: the hour in which storage.setAlarm set it (NoTime:
                 \* no alarm is set; the alarm that rings is consumed by its run)
    resp,        \* the Response the last step returned, if it was an HTTP request
    outbox       \* the messages the last step delivered to WebSockets, in order

vars == <<now, storage, conn, websockets, task, upd, alarmAt, resp, outbox>>

\* ------------------------------------------------------------ the data
NewSession(t, status) ==
    [status |-> status, toolExecutions |-> <<>>,
     websocketConnections |-> 0, lastActivity |-> t]

NewExecution(e) ==
    [id |-> e, status |-> "running", endTime |-> NoTime, progress |-> 0]

\* Object.assign(base, patch), for a patch of fields of SessionData (a field the
\* record type does not have is carried along and never read)
Assign(base, patch) ==
    [f \in DOMAIN base |-> IF f \in DOMAIN patch THEN patch[f] ELSE base[f]]

\* the request bodies a client sends with POST and PUT
RequestData == {[note |-> "n"], [status |-> "inactive"]}

\* the progress values the backend's progress events carry
FeedProgress == {50, 150}
\* the events of the backend's stream: a line that parses, of some type, or one that does not
FeedEvents ==
    [type : {"progress"}, progress : FeedProgress]
        \cup [type : {"complete", "raw"}, progress : {0}]

\* --------------------------------------------------------- the storage
Put(st, s, rec) == [k \in DOMAIN st \cup {s} |-> IF k = s THEN rec ELSE st[k]]
Delete(st, s) == [k \in DOMAIN st \ {s} |-> st[k]]
\* storage.get: the value, or undefined
Get(st, s) == IF s \in DOMAIN st THEN <<st[s]>> ELSE <<>>
\* getSessionData: a failed read is swallowed and reads as null
GetSessionData(st, s, readOk) == IF readOk THEN Get(st, s) ELSE <<>>

\* toolExecutions.find(e => e.id === executionId), as an index (0: not found)
FindExecution(rec, e) ==
    LET hits == {i \in 1..Len(rec.toolExecutions) : rec.toolExecutions[i].id = e}
    IN IF hits = {} THEN 0 ELSE CHOOSE i \in hits : \A j \in hits : i <= j

HasExecution(rec, e) == FindExecution(rec, e) # 0
ExecutionOf(rec, e) == rec.toolExecutions[FindExecution(rec, e)]

\* -------------------------------------------------------- the sockets
NoResp == [code |-> 0, body |-> <<>>]
Resp(code, body) == [code |-> code, body |-> body]
\* a StreamMessage as a socket receives it: its type, its executionId (0: none),
\* its data.progress (0: none), the session record it carries (<<>>: none)
Msg(c, type, e, progress, body) ==
    [to |-> c, type |-> type, exec |-> e, progress |-> progress, body |-> body]

\* a send reaches the peer when the socket is open; on any other socket it
\* throws or is dropped, as the caller's `thr` says
Delivered(c) == conn[c].state = "open"
Throws(c, thr) == conn[c].state # "open" /\ thr
SendTo(c, msg) == IF Delivered(c) THEN <<msg>> ELSE <<>>

Init ==
    /\ now = 0
    /\ storage = <<>>
    /\ conn = [c \in Conns |-> [state |-> "new", sid |-> 0]]
    /\ websockets = {}
    /\ task = [e \in ExecIds |-> [pc |-> "unused", sid |-> 0, ws |-> 0,
                                  session |-> <<>>, recorded |-> FALSE,
                                  seen |-> {}]]
    /\ upd = <<>>
    /\ alarmAt = NoTime
    /\ resp = NoResp
    /\ outbox = <<>>

\* the clock advances
Tick ==
    /\ now < MaxTime
    /\ now' = now + 1
    /\ resp' = NoResp
    /\ outbox' = <<>>
    /\ UNCHANGED <<storage, conn, websockets, task, upd, alarmAt>>

\* ------------------------------------------------------ handleWebSocket
\* The upgrade request: accept, add to the set, count the connection in the
\* stored record if there is one, send the welcome, register the listeners.
AttachedSessionUncounted(rec) ==
    [rec EXCEPT !.status = "streaming", !.lastActivity = now]

AttachedSession(rec) ==
    [rec EXCEPT !.websocketConnections = @ + 1,
                !.status = "streaming",
                !.lastActivity = now]

HandleWebSocket(c, s, readOk, writeOk) ==
    /\ conn[c].state = "new"
    /\ LET session == GetSessionData(storage, s, readOk)
       IN /\ websockets' = websockets \cup {c}
          /\ IF session # <<>> /\ ~writeOk
             THEN \* storage.put throws: 500, and the accepted socket stays in the set
                  /\ conn' = [conn EXCEPT ![c] = [state |-> "orphan", sid |-> s]]
                  /\ resp' = Resp(500, <<>>)
                  /\ outbox' = <<>>
                  /\ UNCHANGED storage
             ELSE /\ storage' = IF session # <<>>
                                THEN Put(storage, s, AttachedSession(session[1]))
                                ELSE storage
                  /\ conn' = [conn EXCEPT ![c] = [state |-> "open", sid |-> s]]
                  /\ resp' = Resp(101, <<>>)
                  /\ outbox' = <<Msg(c, "connection", 0, 0, <<>>)>>
    /\ UNCHANGED <<now, task, upd, alarmAt>>

\* The 'close' listener.
DetachedSession(rec) ==
    LET n == IF rec.websocketConnections - 1 > 0 THEN rec.websocketConnections - 1 ELSE 0
    IN [rec EXCEPT !.websocketConnections = n,
                   !.status = IF n = 0 THEN "inactive" ELSE @,
                   !.lastActivity = now]

OnClose(c, readOk, writeOk) ==
    /\ conn[c].state \in {"open", "broken", "closing"}
    /\ LET s == conn[c].sid
           session == GetSessionData(storage, s, readOk)
       IN storage' = IF session # <<>> /\ writeOk
                     THEN Put(storage, s, DetachedSession(session[1]))
                     ELSE storage
    /\ websockets' = websockets \ {c}
    /\ conn' = [conn EXCEPT ![c].state = "closed"]
    /\ resp' = NoResp
    /\ outbox' = <<>>
    /\ UNCHANGED <<now, task, upd, alarmAt>>

\* The peer of an open socket vanishes; its close event is yet to arrive.
PeerVanishes(c) ==
    /\ conn[c].state = "open"
    /\ conn' = [conn EXCEPT ![c].state = "broken"]
    /\ resp' = NoResp
    /\ outbox' = <<>>
    /\ UNCHANGED <<now, storage, websockets, task, upd, alarmAt>>

\* ------------------------------------------------------- createSession
CreateSession(s, data, writeOk) ==
    /\ LET session == Assign(NewSession(now, "active"), data)
       IN IF writeOk
          THEN /\ storage' = Put(storage, s, session)
               /\ resp' = Resp(201, <<session>>)
          ELSE /\ resp' = Resp(400, <<>>)
               /\ UNCHANGED storage
    /\ outbox' = <<>>
    /\ UNCHANGED <<now, conn, websockets, task, upd, alarmAt>>

CreateStreamingSession(s, data, writeOk) ==
    /\ LET session == Assign(NewSession(now, "streaming"), data)
       IN IF writeOk
          THEN /\ storage' = Put(storage, s, session)
               /\ resp' = Resp(201, <<session>>)
          ELSE /\ resp' = Resp(400, <<>>)
               /\ UNCHANGED storage
    /\ outbox' = <<>>
    /\ UNCHANGED <<now, conn, websockets, task, upd, alarmAt>>

\* ------------------------------------------- handleToolExecutionRequest
\* executionId: the ids are handed out in the order of the requests
Fresh(e) == task[e].pc = "unused" /\ \A f \in ExecIds : f < e => task[f].pc # "unused"

Ended(e, pc) == [task EXCEPT ![e].pc = pc, ![e].session = <<>>]

\* the complete and error events among the messages `out` that carry the
\* executionId e, added to those already delivered
Seen(old, out, e) ==
    old \cup {[to |-> out[i].to, type |-> out[i].type] :
                i \in {j \in 1..Len(out) : out[j].exec = e
                                            /\ out[j].type \in {"complete", "error"}}}

\* the three writes to an execution of a record that holds it
FailedExecution(rec, e) ==
    [rec EXCEPT !.toolExecutions[FindExecution(rec, e)] =
                    [@ EXCEPT !.status = "failed", !.endTime = now]]

CompletedExecution(rec, e) ==
    [rec EXCEPT !.toolExecutions[FindExecution(rec, e)] =
                    [@ EXCEPT !.status = "completed", !.endTime = now, !.progress = FullProgress]]

\* `parsedData.data?.progress || execution.progress`
ProgressOr(p, old) == IF p = 0 THEN old ELSE p

ProgressedExecution(rec, e, p) ==
    [rec EXCEPT !.toolExecutions[FindExecution(rec, e)].progress = ProgressOr(p, @)]

\* The catch block of handleToolExecutionRequest, on storage `st`: the stored
\* record is read again and the execution, if it is found there, marked failed;
\* then the error event is sent to the requesting socket.  When the put throws,
\* the catch of handleWebSocketMessage answers instead, without an executionId.
Catch(st, e, s, c, readOk, writeOk) ==
    LET session == GetSessionData(st, s, readOk)
        found == session # <<>> /\ HasExecution(session[1], e)
    IN IF found /\ ~writeOk
       THEN [storage |-> st, outbox |-> SendTo(c, Msg(c, "error", 0, 0, <<>>))]
       ELSE [storage |-> IF found THEN Put(st, s, FailedExecution(session[1], e)) ELSE st,
             outbox |-> SendTo(c, Msg(c, "error", e, 0, <<>>))]

Fail(st, e, readOk, writeOk) ==
    LET out == Catch(st, e, task[e].sid, task[e].ws, readOk, writeOk)
    IN /\ storage' = out.storage
       /\ outbox' = out.outbox
       /\ task' = [Ended(e, "failed") EXCEPT ![e].seen = Seen(@, out.outbox, e)]

\* A 'tool_execution' message on socket c: record the execution, acknowledge,
\* call the backend.
ToolExecution(c, e, readOk, writeOk, readOk2, writeOk2) ==
    /\ conn[c].state = "open"
    /\ Fresh(e)
    /\ LET s == conn[c].sid
           session == GetSessionData(storage, s, readOk)
           pushed == IF session = <<>> THEN <<>>
                     ELSE <<[session[1] EXCEPT !.toolExecutions = Append(@, NewExecution(e))]>>
           started == [pc |-> "fetch", sid |-> s, ws |-> c, session |-> pushed,
                       recorded |-> pushed # <<>>, seen |-> {}]
       IN IF pushed # <<>> /\ ~writeOk
          THEN LET out == Catch(storage, e, s, c, readOk2, writeOk2)
               IN /\ storage' = out.storage
                  /\ outbox' = out.outbox
                  /\ task' = [task EXCEPT ![e] = [started EXCEPT !.pc = "failed",
                                                                 !.session = <<>>,
                                                                 !.recorded = FALSE,
                                                                 !.seen = Seen(@, out.outbox, e)]]
          ELSE /\ storage' = IF pushed # <<>> THEN Put(storage, s, pushed[1]) ELSE storage
               /\ outbox' = SendTo(c, Msg(c, "progress", e, AckProgress, <<>>))
               /\ task' = [task EXCEPT ![e] = started]
    /\ resp' = NoResp
    /\ UNCHANGED <<now, conn, websockets, upd, alarmAt>>

\* fetch resolves with a response that has a body
FetchResponds(e) ==
    /\ task[e].pc = "fetch"
    /\ task' = [task EXCEPT ![e].pc = "read"]
    /\ resp' = NoResp
    /\ outbox' = <<>>
    /\ UNCHANGED <<now, storage, conn, websockets, upd, alarmAt>>

\* fetch rejects, or resolves with no body
FetchFails(e, readOk, writeOk) ==
    /\ task[e].pc = "fetch"
    /\ Fail(storage, e, readOk, writeOk)
    /\ resp' = NoResp
    /\ UNCHANGED <<now, conn, websockets, upd, alarmAt>>

\* reader.read() gives a chunk holding one `data: ` line
ReadEvent(e, ev, writeOk, thr, readOk2, writeOk2) ==
    /\ task[e].pc = "read"
    /\ LET s == task[e].sid
           c == task[e].ws
           copy == task[e].session
           isProgress == ev.type = "progress" /\ copy # <<>> /\ HasExecution(copy[1], e)
           newCopy == IF isProgress THEN <<ProgressedExecution(copy[1], e, ev.progress)>> ELSE copy
           stored == IF isProgress /\ writeOk THEN Put(storage, s, newCopy[1]) ELSE storage
           raw == ev.type = "raw" \/ (isProgress /\ ~writeOk)
           message == IF raw THEN Msg(c, "data", 0, 0, <<>>) ELSE Msg(c, ev.type, e, ev.progress, <<>>)
       IN IF Throws(c, thr)
          THEN \* the send throws, the raw send in the inner catch throws again
               Fail(stored, e, readOk2, writeOk2)
          ELSE /\ storage' = stored
               /\ outbox' = SendTo(c, message)
               /\ task' = [task EXCEPT ![e].session = newCopy,
                                        ![e].seen = Seen(@, SendTo(c, message), e)]
    /\ resp' = NoResp
    /\ UNCHANGED <<now, conn, websockets, upd, alarmAt>>

\* reader.read() gives done: the clean end of the stream
ReadDone(e, writeOk, readOk2, writeOk2) ==
    /\ task[e].pc = "read"
    /\ LET s == task[e].sid
           copy == task[e].session
           found == copy # <<>> /\ HasExecution(copy[1], e)
       IN IF found /\ ~writeOk
          THEN Fail(storage, e, readOk2, writeOk2)
          ELSE /\ storage' = IF found
                             THEN Put(storage, s, CompletedExecution(copy[1], e))
                             ELSE storage
               /\ outbox' = <<>>
               /\ task' = Ended(e, "completed")
    /\ resp' = NoResp
    /\ UNCHANGED <<now, conn, websockets, upd, alarmAt>>

\* reader.read() rejects: the transport broke mid-stream
ReadFails(e, readOk, writeOk) ==
    /\ task[e].pc = "read"
    /\ Fail(storage, e, readOk, writeOk)
    /\ resp' = NoResp
    /\ UNCHANGED <<now, conn, websockets, upd, alarmAt>>

\* ------------------------------------------- the other socket messages
PingWhenIdle(c) ==
    /\ conn[c].state = "open"
    /\ \A e \in ExecIds : task[e].pc \notin {"fetch", "read"}
    /\ outbox' = <<Msg(c, "pong", 0, 0, <<>>)>>
    /\ resp' = NoResp
    /\ UNCHANGED <<now, storage, conn, websockets, task, upd, alarmAt>>

Ping(c) ==
    /\ conn[c].state = "open"
    /\ outbox' = <<Msg(c, "pong", 0, 0, <<>>)>>
    /\ resp' = NoResp
    /\ UNCHANGED <<now, storage, conn, websockets, task, upd, alarmAt>>

SessionStatus(c, readOk) ==
    /\ conn[c].state = "open"
    /\ outbox' = <<Msg(c, "data", 0, 0, GetSessionData(storage, conn[c].sid, readOk))>>
    /\ resp' = NoResp
    /\ UNCHANGED <<now, storage, conn, websockets, task, upd, alarmAt>>

\* a message that does not parse, or one of an unknown type
BadMessageDropsSocket(c) ==
    /\ conn[c].state = "open"
    /\ outbox' = <<Msg(c, "error", 0, 0, <<>>)>>
    /\ websockets' = websockets \ {c}
    /\ resp' = NoResp
    /\ UNCHANGED <<now, storage, conn, task, upd, alarmAt>>

BadMessage(c) ==
    /\ conn[c].state = "open"
    /\ outbox' = <<Msg(c, "error", 0, 0, <<>>)>>
    /\ resp' = NoResp
    /\ UNCHANGED <<now, storage, conn, websockets, task, upd, alarmAt>>

\* ----------------------------------------------------------- getSession
GetSession(s, readOk) ==
    /\ resp' = IF ~readOk THEN Resp(500, <<>>)
               ELSE IF Get(storage, s) = <<>> THEN Resp(404, <<>>)
               ELSE Resp(200, Get(storage, s))
    /\ outbox' = <<>>
    /\ UNCHANGED <<now, storage, conn, websockets, task, upd, alarmAt>>

\* ------------------------------------------------- broadcastToWebSockets
\* `broken`: the sockets of the set whose send throws; they leave the set
BroadcastToFirstThrow(broken) ==
    {c \in websockets \ broken : Delivered(c) /\ \A b \in broken : c < b}
BroadcastTo(broken) == {c \in websockets \ broken : Delivered(c)}
Broadcast(type, body, broken) ==
    [c \in BroadcastTo(broken) |-> Msg(c, type, 0, 0, body)]
CanBreak == {c \in websockets : ~Delivered(c)}

\* the messages of a broadcast, in the order of the set (insertion order; the
\* model orders the sockets by number)
RECURSIVE InOrder(_, _)
InOrder(f, cs) ==
    IF cs = {} THEN <<>>
    ELSE LET c == CHOOSE x \in cs : \A y \in cs : x <= y
         IN <<f[c]>> \o InOrder(f, cs \ {c})
BroadcastMessages(type, body, broken) ==
    InOrder(Broadcast(type, body, broken), BroadcastTo(broken))

\* -------------------------------------------------------- updateSession
\* up to `await request.json()`
UpdateSessionReadOrCreate(s, readOk) ==
    /\ upd = <<>>
    /\ IF ~readOk THEN /\ resp' = Resp(500, <<>>)
                       /\ upd' = <<>>
       ELSE /\ resp' = NoResp
            /\ upd' = <<[sid |-> s,
                         existingSession |-> IF Get(storage, s) = <<>>
                                             THEN NewSession(now, "active")
                                             ELSE storage[s]]>>
    /\ outbox' = <<>>
    /\ UNCHANGED <<now, storage, conn, websockets, task, alarmAt>>

UpdateSessionRead(s, readOk) ==
    /\ upd = <<>>
    /\ IF ~readOk THEN /\ resp' = Resp(500, <<>>)
                       /\ upd' = <<>>
       ELSE IF Get(storage, s) = <<>> THEN /\ resp' = Resp(404, <<>>)
                                           /\ upd' = <<>>
       ELSE /\ resp' = NoResp
            /\ upd' = <<[sid |-> s, existingSession |-> storage[s]]>>
    /\ outbox' = <<>>
    /\ UNCHANGED <<now, storage, conn, websockets, task, alarmAt>>

UpdatedSession(existing, data) ==
    Assign(Assign(existing, data), [lastActivity |-> now])

\* from request.json() on
UpdateSessionWrite(data, writeOk, broken) ==
    /\ upd # <<>>
    /\ broken \subseteq CanBreak
    /\ LET s == upd[1].sid
           updated == UpdatedSession(upd[1].existingSession, data)
       IN IF writeOk
          THEN /\ storage' = Put(storage, s, updated)
               /\ outbox' = BroadcastMessages("data", <<updated>>, broken)
               /\ websockets' = websockets \ broken
               /\ resp' = Resp(200, <<updated>>)
          ELSE /\ resp' = Resp(500, <<>>)
               /\ outbox' = <<>>
               /\ UNCHANGED <<storage, websockets>>
    /\ upd' = <<>>
    /\ UNCHANGED <<now, conn, task, alarmAt>>

\* the request body is not JSON
UpdateSessionInvalid ==
    /\ upd # <<>>
    /\ upd' = <<>>
    /\ resp' = Resp(500, <<>>)
    /\ outbox' = <<>>
    /\ UNCHANGED <<now, storage, conn, websockets, task, alarmAt>>

\* -------------------------------------------------------- deleteSession
DeleteSessionQuietly(s, writeOk, broken) ==
    /\ broken \subseteq CanBreak
    /\ outbox' = <<>>
    /\ conn' = [c \in Conns |-> IF c \in websockets \ broken
                                THEN [conn[c] EXCEPT !.state = "closing"]
                                ELSE conn[c]]
    /\ websockets' = {}
    /\ IF ~writeOk THEN /\ resp' = Resp(500, <<>>)
                        /\ UNCHANGED storage
       ELSE IF s \notin DOMAIN storage THEN /\ resp' = Resp(404, <<>>)
                                            /\ UNCHANGED storage
       ELSE /\ resp' = Resp(200, <<>>)
            /\ storage' = Delete(storage, s)
    /\ UNCHANGED <<now, task, upd, alarmAt>>

DeleteSessionUnchecked(s, writeOk, broken) ==
    /\ broken \subseteq CanBreak
    /\ outbox' = BroadcastMessages("connection", <<>>, broken)
    /\ conn' = [c \in Conns |-> IF c \in websockets \ broken
                                THEN [conn[c] EXCEPT !.state = "closing"]
                                ELSE conn[c]]
    /\ websockets' = {}
    /\ IF ~writeOk THEN /\ resp' = Resp(500, <<>>)
                        /\ UNCHANGED storage
       ELSE /\ resp' = Resp(200, <<>>)
            /\ storage' = Delete(storage, s)
    /\ UNCHANGED <<now, task, upd, alarmAt>>

DeleteSession(s, writeOk, broken) ==
    /\ broken \subseteq CanBreak
    /\ outbox' = BroadcastMessages("connection", <<>>, broken)
    /\ conn' = [c \in Conns |-> IF c \in websockets \ broken
                                THEN [conn[c] EXCEPT !.state = "closing"]
                                ELSE conn[c]]
    /\ websockets' = {}
    /\ IF ~writeOk THEN /\ resp' = Resp(500, <<>>)
                        /\ UNCHANGED storage
       ELSE IF s \notin DOMAIN storage THEN /\ resp' = Resp(404, <<>>)
                                            /\ UNCHANGED storage
       ELSE /\ resp' = Resp(200, <<>>)
            /\ storage' = Delete(storage, s)
    /\ UNCHANGED <<now, task, upd, alarmAt>>

\* ---------------------------------------------------------------- alarm
ExpiredByAge(rec) == rec.lastActivity < now - OneHour

Expired(rec) == rec.lastActivity < now - OneHour /\ rec.websocketConnections = 0

\* `failAt`: the key whose storage.delete throws (0: none does)
Alarm(listOk, failAt) ==
    /\ LET expired == {s \in DOMAIN storage : Expired(storage[s])}
           thrown == listOk /\ failAt \in expired
           swept == IF ~listOk THEN {}
                    ELSE IF thrown THEN {s \in expired : s < failAt}
                    ELSE expired
       IN /\ storage' = [s \in DOMAIN storage \ swept |-> storage[s]]
          /\ alarmAt' = IF listOk /\ ~thrown THEN now ELSE NoTime
    /\ resp' = NoResp
    /\ outbox' = <<>>
    /\ UNCHANGED <<now, conn, websockets, task, upd>>

\* ---------------------------------------------------------------- next
\* `SS`: the session ids the clients use; `CC`: the sockets they open; `EE`:
\* the executions they request; `OK`: how a storage operation may turn out
\* (TRUE: it succeeds)
SessionSteps(SS, CC, OK) ==
    \/ Tick
    \/ \E c \in CC, s \in SS, r, w \in OK : HandleWebSocket(c, s, r, w)
    \/ \E c \in CC, r, w \in OK : OnClose(c, r, w)
    \/ \E c \in CC : PeerVanishes(c)
    \/ \E s \in SS, d \in RequestData, w \in OK : CreateSession(s, d, w)

RelaySteps(CC, EE, OK) ==
    \/ \E c \in CC, e \in EE, r, w, r2, w2 \in OK : ToolExecution(c, e, r, w, r2, w2)
    \/ \E e \in EE : FetchResponds(e)
    \/ \E e \in EE, r, w \in OK : FetchFails(e, r, w)
    \/ \E e \in EE, ev \in FeedEvents, w, r2, w2 \in OK, thr \in BOOLEAN :
            ReadEvent(e, ev, w, thr, r2, w2)
    \/ \E e \in EE, w, r2, w2 \in OK : ReadDone(e, w, r2, w2)
    \/ \E e \in EE, r, w \in OK : ReadFails(e, r, w)

OtherSteps(SS, CC, OK) ==
    \/ \E s \in SS, d \in RequestData, w \in OK : CreateStreamingSession(s, d, w)
    \/ \E c \in CC : Ping(c)
    \/ \E c \in CC, r \in OK : SessionStatus(c, r)
    \/ \E c \in CC : BadMessage(c)
    \/ \E s \in SS, r \in OK : GetSession(s, r)
    \/ \E s \in SS, r \in OK : UpdateSessionRead(s, r)
    \/ \E d \in RequestData, w \in OK, broken \in SUBSET CC : UpdateSessionWrite(d, w, broken)
    \/ UpdateSessionInvalid
    \/ \E s \in SS, w \in OK, broken \in SUBSET CC : DeleteSession(s, w, broken)
    \/ \E l \in OK, f \in {0} \cup (IF OK = {TRUE} THEN {} ELSE SS) : Alarm(l, f)

Next ==
    \/ SessionSteps(Sessions, Conns, BOOLEAN)
    \/ RelaySteps(Conns, ExecIds, BOOLEAN)
    \/ OtherSteps(Sessions, Conns, BOOLEAN)
Spec == Init /\ [][Next]_vars

\* one session, one socket, the store available: the executions and their relays
NextRelay == SessionSteps({1}, {1}, {TRUE}) \/ RelaySteps({1}, ExecIds, {TRUE})
SpecRelay == Init /\ [][NextRelay]_vars

\* one session, one execution, the store available: the sockets of a session
NextFanout == SessionSteps({1}, Conns, {TRUE}) \/ RelaySteps(Conns, {1}, {TRUE})
SpecFanout == Init /\ [][NextFanout]_vars

\* one session, no execution, the store available: the HTTP operations and the sweeper
NextSession == SessionSteps({1}, Conns, {TRUE}) \/ OtherSteps({1}, Conns, {TRUE})
SpecSession == Init /\ [][NextSession]_vars

\* a session that was POSTed and then sees only its sockets open and close
InitAccounting ==
    /\ now = 0
    /\ \E d \in RequestData :
          /\ storage = Put(<<>>, 1, Assign(NewSession(0, "active"), d))
          /\ resp = Resp(201, <<Assign(NewSession(0, "active"), d)>>)
    /\ conn = [c \in Conns |-> [state |-> "new", sid |-> 0]]
    /\ websockets = {}
    /\ task = [e \in ExecIds |-> [pc |-> "unused", sid |-> 0, ws |-> 0,
                                  session |-> <<>>, recorded |-> FALSE,
                                  seen |-> {}]]
    /\ upd = <<>>
    /\ alarmAt = NoTime
    /\ outbox = <<>>
NextAccounting ==
    \/ Tick
    \/ \E c \in Conns : HandleWebSocket(c, 1, TRUE, TRUE)
    \/ \E c \in Conns : OnClose(c, TRUE, TRUE)
    \/ \E c \in Conns : PeerVanishes(c)
SpecAccounting == InitAccounting /\ [][NextAccounting]_vars

\* The sweep among several sessions: one socket, every session id, the store
\* available to the handlers, and an alarm whose list or delete may throw.
NextSweep ==
    \/ SessionSteps(Sessions, {1}, {TRUE})
    \/ \E l \in BOOLEAN, f \in {0} \cup Sessions : Alarm(l, f)
SpecSweep == Init /\ [][NextSweep]_vars

\* The stored records under PUT and DELETE: the store available, the sessions
\* `SS` and the sockets `CC`.
StoreSteps(SS, CC) ==
    \/ \E s \in SS : UpdateSessionRead(s, TRUE)
    \/ \E d \in RequestData, broken \in SUBSET CC : UpdateSessionWrite(d, TRUE, broken)
    \/ UpdateSessionInvalid
    \/ \E s \in SS, broken \in SUBSET CC : DeleteSession(s, TRUE, broken)
\* every session id, one socket, within one hour
NextStore ==
    \/ \E s \in Sessions : HandleWebSocket(1, s, TRUE, TRUE)
    \/ OnClose(1, TRUE, TRUE)
    \/ PeerVanishes(1)
    \/ \E s \in Sessions, d \in RequestData : CreateSession(s, d, TRUE)
    \/ StoreSteps(Sessions, {1})
SpecStore == Init /\ [][NextStore]_vars
\* one session id, every socket
NextBroadcast == SessionSteps({1}, Conns, {TRUE}) \/ StoreSteps({1}, Conns)
SpecBroadcast == Init /\ [][NextBroadcast]_vars

\* A sweep over three keys and more, of which the delete of one may fail: one
\* key before the failing one and one after it.
SweepKeys == 1..(NumSessions + 1)
NextSweepKeys ==
    \/ Tick
    \/ \E s \in SweepKeys, d \in RequestData : CreateSession(s, d, TRUE)
    \/ \E s \in SweepKeys : HandleWebSocket(1, s, TRUE, TRUE)
    \/ OnClose(1, TRUE, TRUE)
    \/ \E l \in BOOLEAN, f \in {0} \cup SweepKeys : Alarm(l, f)
SpecSweepKeys == Init /\ [][NextSweepKeys]_vars

\* Several sessions in one instance, each with its sockets, within one hour:
\* attach, detach, POST, PUT and DELETE, the store available.
NextIsolation ==
    \/ \E c \in Conns, s \in Sessions : HandleWebSocket(c, s, TRUE, TRUE)
    \/ \E c \in Conns : OnClose(c, TRUE, TRUE)
    \/ \E s \in Sessions, d \in RequestData : CreateSession(s, d, TRUE)
    \/ StoreSteps(Sessions, Conns)
SpecIsolation == Init /\ [][NextIsolation]_vars

\* One session and its sockets over a store whose reads and writes may fail:
\* attach, detach, POST, GET and session_status.
NextFaults ==
    \/ SessionSteps({1}, Conns, BOOLEAN)
    \/ \E c \in Conns, r \in BOOLEAN : SessionStatus(c, r)
    \/ \E r \in BOOLEAN : GetSession(1, r)
SpecFaults == Init /\ [][NextFaults]_vars

\* One session, its sockets and the messages they send that start no execution.
NextMessages ==
    \/ SessionSteps({1}, Conns, {TRUE})
    \/ \E c \in Conns : Ping(c)
    \/ \E c \in Conns : SessionStatus(c, TRUE)
    \/ \E c \in Conns : BadMessage(c)
SpecMessages == Init /\ [][NextMessages]_vars

\* One session and one socket within one hour: the executions and their
\* relays, whose backend sends progress events of values within 0..100 and
\* ends the stream, and between their steps the other messages and requests.
InRangeProgress == {ev \in FeedEvents : ev.type = "progress" /\ ev.progress <= FullProgress}
NextInterleave ==
    \/ HandleWebSocket(1, 1, TRUE, TRUE)
    \/ OnClose(1, TRUE, TRUE)
    \/ \E d \in RequestData : CreateSession(1, d, TRUE)
    \/ \E e \in ExecIds : ToolExecution(1, e, TRUE, TRUE, TRUE, TRUE)
    \/ \E e \in ExecIds : FetchResponds(e)
    \/ \E e \in ExecIds, ev \in InRangeProgress, thr \in BOOLEAN :
            ReadEvent(e, ev, TRUE, thr, TRUE, TRUE)
    \/ \E e \in ExecIds : ReadDone(e, TRUE, TRUE, TRUE)
    \/ Ping(1)
    \/ SessionStatus(1, TRUE)
    \/ GetSession(1, TRUE)
SpecInterleave == Init /\ [][NextInterleave]_vars

\* One session, one socket and one execution, and the DELETE of the session
\* while the execution runs.
NextDelete ==
    \/ SessionSteps({1}, {1}, {TRUE})
    \/ RelaySteps({1}, {1}, {TRUE})
    \/ \E broken \in SUBSET {1} : DeleteSession(1, TRUE, broken)
SpecDelete == Init /\ [][NextDelete]_vars

\* ------------------------------------------------------------ the claims
Terminal(x) == x.status \in {"completed", "failed"}
Executions(rec) == {rec.toolExecutions[i] : i \in 1..Len(rec.toolExecutions)}
ExecutionIds(rec) == [i \in 1..Len(rec.toolExecutions) |-> rec.toolExecutions[i].id]
\* the session is POSTed in this step
Created == \E s \in Sessions, d \in RequestData :
              CreateSession(s, d, TRUE) \/ CreateStreamingSession(s, d, TRUE)

\* C1: an execution that is completed or failed in the stored record of a
\* session keeps its status and its endTime in every later record of that
\* session that lists it.
C1_TerminalChanges ==
    [][\A s \in DOMAIN storage \cap DOMAIN storage' :
         \A x \in Executions(storage[s]) :
            Terminal(x) /\ HasExecution(storage'[s], x.id)
                => /\ ExecutionOf(storage'[s], x.id).status = x.status
                   /\ ExecutionOf(storage'[s], x.id).endTime = x.endTime]_vars

\* C2: no write of the session record is lost: but for a step that POSTs the
\* session anew, the executions the stored record lists are still listed by the
\* next stored record, in the same order.
IsSubSeq(a, b) ==
    \E skip \in SUBSET (1..Len(b)) :
        LET keep == {i \in 1..Len(b) : i \notin skip}
            nth(k) == CHOOSE i \in keep : Cardinality({j \in keep : j <= i}) = k
        IN /\ Cardinality(keep) = Len(a)
           /\ \A k \in 1..Len(a) : a[k] = b[nth(k)]

C2_ExecutionLost ==
    [][\A s \in DOMAIN storage \cap DOMAIN storage' :
         ~Created => IsSubSeq(ExecutionIds(storage[s]), ExecutionIds(storage'[s]))]_vars

\* C3: a POST of a session id that has a stored record returns that record and
\* leaves the stored record as it is, whatever the request body.
C3_CreateOverwrites ==
    [][\A s \in Sessions, d \in RequestData :
         s \in DOMAIN storage /\ CreateSession(s, d, TRUE)
            => /\ storage' = storage
               /\ resp'.body = <<storage[s]>>]_vars

\* C5: in every stored record, status is streaming exactly when
\* websocketConnections > 0.
C5_StreamingIffConnected ==
    \A s \in DOMAIN storage :
        storage[s].status = "streaming" <=> storage[s].websocketConnections > 0

\* C4: over any sequence of attaches and detaches on a session, the stored
\* websocketConnections is the number of attaches minus the number of detaches,
\* and it is never negative.  (A socket is attached once and detached once: the
\* attaches are the sockets whose upgrade ran, the detaches those whose close
\* listener ran.)
Attaches(s) == Cardinality({c \in Conns : conn[c].sid = s})
Detaches(s) == Cardinality({c \in Conns : conn[c].sid = s /\ conn[c].state = "closed"})
C4_CountIsAttachesMinusDetaches ==
    \A s \in DOMAIN storage :
        /\ storage[s].websocketConnections = Attaches(s) - Detaches(s)
        /\ storage[s].websocketConnections >= 0
C4_Witness ==
    /\ 1 \in DOMAIN storage
    /\ Attaches(1) = 2
    /\ Detaches(1) = 1
    /\ storage[1].websocketConnections = 1

\* C6: a run of the sweeper leaves every stored record whose
\* websocketConnections is above 0 in the store, as it is, however old its
\* lastActivity.
C6_SweepSparesConnected ==
    [][(\E l \in BOOLEAN, f \in {0} \cup Sessions : Alarm(l, f))
          => \A s \in DOMAIN storage :
                storage[s].websocketConnections > 0
                    => s \in DOMAIN storage' /\ storage'[s] = storage[s]]_vars
\* the sweeper ran in this hour, past a record that is older than the threshold
\* and counts a connection
C6_Witness ==
    /\ alarmAt = now
    /\ \E s \in DOMAIN storage :
          /\ storage[s].websocketConnections > 0
          /\ storage[s].lastActivity < now - OneHour

\* C7: an execution requested on a session that has a record is listed in the
\* stored record of that session at every point after the request: as running
\* with progress 0 until the backend responds, and listed still while its
\* events are relayed and after its handler has ended.
C7_ExecutionIsListed ==
    \A e \in ExecIds :
        task[e].recorded
            => /\ task[e].sid \in DOMAIN storage
               /\ HasExecution(storage[task[e].sid], e)
               /\ task[e].pc = "fetch"
                    => /\ ExecutionOf(storage[task[e].sid], e).status = "running"
                       /\ ExecutionOf(storage[task[e].sid], e).progress = 0

\* C8: the acknowledgment of an execution and every event its relay takes from
\* the backend's stream reach every socket that is attached to the session at
\* that moment, with the executionId.
AttachedTo(s) == {c \in websockets : conn[c].state = "open" /\ conn[c].sid = s}
RelaySends(e) ==
    \/ \E c \in Conns : ToolExecution(c, e, TRUE, TRUE, TRUE, TRUE)
    \/ \E ev \in FeedEvents, thr \in BOOLEAN : ReadEvent(e, ev, TRUE, thr, TRUE, TRUE)
C8_RelayReachesAll ==
    [][\A e \in ExecIds :
         RelaySends(e)
            => \A c \in AttachedTo(task'[e].sid) :
                  \E i \in 1..Len(outbox') : outbox'[i].to = c /\ outbox'[i].exec = e]_vars

\* C9: an execution whose stream ended cleanly never ends up failed or left
\* running: wherever the stored record lists it, it is completed, with an
\* endTime and progress 100.
C9_CleanEndStaysCompleted ==
    \A e \in ExecIds :
        /\ task[e].pc = "completed"
        /\ task[e].sid \in DOMAIN storage
        /\ HasExecution(storage[task[e].sid], e)
        => /\ ExecutionOf(storage[task[e].sid], e).status = "completed"
           /\ ExecutionOf(storage[task[e].sid], e).endTime # NoTime
           /\ ExecutionOf(storage[task[e].sid], e).progress = FullProgress

\* C10: when the backend call of an execution that was recorded at its request
\* fails, or its stream breaks, the stored record lists the execution as
\* failed, with the endTime of that moment, and the requesting socket, if it is
\* open, is sent one error event, which carries the executionId.
BackendFails(e) == FetchFails(e, TRUE, TRUE) \/ ReadFails(e, TRUE, TRUE)
ErrorsOf(e, out) == {i \in 1..Len(out) : out[i].type = "error" /\ out[i].exec = e}
C10_FailureIsRecorded ==
    [][\A e \in ExecIds :
         task[e].recorded /\ BackendFails(e)
            => /\ task[e].sid \in DOMAIN storage'
               /\ HasExecution(storage'[task[e].sid], e)
               /\ ExecutionOf(storage'[task[e].sid], e).status = "failed"
               /\ ExecutionOf(storage'[task[e].sid], e).endTime = now
               /\ Delivered(task[e].ws) => Cardinality(ErrorsOf(e, outbox')) = 1]_vars

\* C11: the stored record and the sockets agree on how an execution ended: in
\* the step in which the stored record comes to list an execution as completed
\* (failed), every socket attached to the session has been sent a complete
\* (error) event with its executionId; and no socket has been sent an error
\* event for an execution the record lists as completed, or a complete event
\* for one it lists as failed.
StoredAs(st, e, status) ==
    /\ task[e].sid \in DOMAIN st
    /\ HasExecution(st[task[e].sid], e)
    /\ ExecutionOf(st[task[e].sid], e).status = status
EventOf(status) == IF status = "completed" THEN "complete" ELSE "error"
C11_ViewsAgree ==
    [][\A e \in ExecIds, status \in {"completed", "failed"} :
         /\ StoredAs(storage', e, status) /\ ~StoredAs(storage, e, status)
                => \A c \in AttachedTo(task[e].sid) :
                      [to |-> c, type |-> EventOf(status)] \in task'[e].seen
         /\ StoredAs(storage', e, status)
                => \A x \in task'[e].seen : x.type = EventOf(status)]_vars

\* C12: the sockets' closing neither cancels nor fails a running execution:
\* once every socket of the session has closed, the one that requested the
\* execution among them, a step of the relay that takes an event from the
\* backend's stream leaves the execution running, and the clean end of the
\* stream leaves it completed in the stored record.
AllClosed(s) == \A c \in Conns : conn[c].sid = s => conn[c].state = "closed"
C12_ClosingFailsNothing ==
    [][\A e \in ExecIds :
         task[e].recorded /\ AllClosed(task[e].sid)
            => /\ (\E ev \in FeedEvents, thr \in BOOLEAN : ReadEvent(e, ev, TRUE, thr, TRUE, TRUE))
                    => task'[e].pc = "read" /\ ~StoredAs(storage', e, "failed")
               /\ ReadDone(e, TRUE, TRUE, TRUE)
                    => StoredAs(storage', e, "completed")]_vars

\* C13: a PUT of a session id that has no stored record is answered 404; it
\* stores nothing, leaves every stored record as it is, and sends no message to
\* any socket.
C13_UpdateOfMissing ==
    [][\A s \in Sessions :
         s \notin DOMAIN storage /\ UpdateSessionRead(s, TRUE)
            => /\ resp'.code = 404
               /\ storage' = storage
               /\ upd' = <<>>
               /\ outbox' = <<>>]_vars
\* a PUT was answered 404 (a DELETE leaves no socket in the set) while another
\* session had a record and a socket was attached
C13_Witness ==
    /\ resp.code = 404
    /\ websockets # {}
    /\ storage # <<>>
    /\ upd = <<>>

\* C14: a PUT that succeeds stores the record that was stored, overridden by
\* the fields of the request body and with lastActivity (and updatedAt, which
\* is written with it) set to the current time, the other fields as they were;
\* and every socket attached to the session is sent that stored record.
UpdateSucceeds == \E d \in RequestData, broken \in SUBSET Conns : UpdateSessionWrite(d, TRUE, broken)
C14_UpdateMerges ==
    [][UpdateSucceeds /\ upd[1].sid \in DOMAIN storage
          => LET s == upd[1].sid
             IN /\ \E d \in RequestData : storage'[s] = UpdatedSession(storage[s], d)
                /\ resp' = Resp(200, <<storage'[s]>>)
                /\ \A c \in AttachedTo(s) :
                      \E i \in 1..Len(outbox') :
                          outbox'[i].to = c /\ outbox'[i].body = <<storage'[s]>>]_vars

\* C15: a DELETE of a session that has a stored record, answered 200, sends
\* every socket attached to the session one connection message, closes the
\* socket (the message is sent before the close: a message reaches an open
\* socket only), leaves the set of live sockets empty, and removes the record.
DeleteSucceeds(s) == \E broken \in SUBSET Conns : DeleteSession(s, TRUE, broken)
C15_DeleteShutsDown ==
    [][\A s \in DOMAIN storage :
         DeleteSucceeds(s)
            => /\ \A c \in AttachedTo(s) :
                    /\ Cardinality({i \in 1..Len(outbox') :
                            outbox'[i].to = c /\ outbox'[i].type = "connection"}) = 1
                    /\ conn'[c].state = "closing"
               /\ websockets' = {}
               /\ s \notin DOMAIN storage'
               /\ resp'.code = 200]_vars
\* a DELETE was answered 200 after it told both sockets and closed them
C15_Witness ==
    /\ resp = Resp(200, <<>>)
    /\ Len(outbox) = 2
    /\ \A c \in Conns : conn[c].state = "closing"
    /\ websockets = {}
    /\ storage = <<>>

\* C16: a DELETE of a session id that has no stored record is answered 404.
C16_DeleteOfMissing ==
    [][\A s \in Sessions :
         s \notin DOMAIN storage /\ DeleteSucceeds(s)
            => resp'.code = 404 /\ storage' = storage]_vars
\* a DELETE was answered 404 (it alone answers 404 and sends messages) while
\* another session had a record
C16_Witness ==
    /\ resp.code = 404
    /\ outbox # <<>>
    /\ storage # <<>>

\* C17: a broadcast among whose sockets some throw on send still reaches every
\* other open socket of the set, drops the throwing sockets from the set and
\* does not fail: the PUT that broadcasts is answered 200.
C17_BroadcastIsolation ==
    [][\A d \in RequestData, broken \in SUBSET Conns :
         UpdateSessionWrite(d, TRUE, broken)
            => /\ \A c \in websockets \ broken :
                     Delivered(c) => \E i \in 1..Len(outbox') :
                                        outbox'[i].to = c /\ outbox'[i].type = "data"
               /\ \A i \in 1..Len(outbox') : outbox'[i].to \notin broken
               /\ websockets' = websockets \ broken
               /\ resp'.code = 200]_vars
\* a PUT was answered 200 after its broadcast reached the second socket and
\* dropped the first, whose peer had vanished, from the set
C17_Witness ==
    /\ resp.code = 200
    /\ conn[1].state = "broken"
    /\ websockets = {2}
    /\ Len(outbox) = 1
    /\ outbox[1].to = 2

\* C18: the events of one execution reach every socket that is attached to the
\* session in the order in which the backend's stream produced them, none
\* twice: the relay reads one event at a time, and the step that reads an
\* event sends each attached socket that event, once, and nothing else.
ForwardedAs(ev) == IF ev.type = "raw" THEN "data" ELSE ev.type
C18_EventsInOrder ==
    [][\A e \in ExecIds, ev \in FeedEvents, thr \in BOOLEAN :
         ReadEvent(e, ev, TRUE, thr, TRUE, TRUE)
            => \A c \in AttachedTo(task[e].sid) :
                  LET got == SelectSeq(outbox', LAMBDA m : m.to = c)
                  IN /\ Len(got) = 1
                     /\ got[1].type = ForwardedAs(ev)
                     /\ got[1].progress = ev.progress]_vars

\* C19: a progress event that is relayed when the stored record lists an
\* execution as completed or failed leaves the stored progress of that
\* execution as it is, also when the relay writes from its own copy of the
\* record.
ProgressRelayed ==
    \E e \in ExecIds, ev \in FeedEvents, thr \in BOOLEAN :
        ev.type = "progress" /\ ReadEvent(e, ev, TRUE, thr, TRUE, TRUE)
C19_LateProgressIsNoOp ==
    [][ProgressRelayed
          => \A s \in DOMAIN storage \cap DOMAIN storage' :
                \A x \in Executions(storage[s]) :
                    Terminal(x) /\ HasExecution(storage'[s], x.id)
                        => ExecutionOf(storage'[s], x.id).progress = x.progress]_vars

\* C20: the stored progress of every execution is within 0..100: a progress
\* event that carries a value outside is clamped before it is stored.
C20_ProgressInRange ==
    \A s \in DOMAIN storage :
        \A x \in Executions(storage[s]) : x.progress >= 0 /\ x.progress <= FullProgress

\* C21: a sweep in which the delete of one key fails still deletes every other
\* stored record that counts no connection and is idle beyond the threshold.
C21_SweepGoesOn ==
    [][\A f \in {0} \cup SweepKeys :
         Alarm(TRUE, f)
            => \A s \in DOMAIN storage :
                  Expired(storage[s]) /\ s # f => s \notin DOMAIN storage']_vars

\* C22: an attach, a detach, a PUT or a DELETE on one session leaves the
\* stored record of every other session as it is, sends nothing to a socket
\* that is attached to another session, and closes no such socket.
OperationOn(a) ==
    \/ \E c \in Conns : HandleWebSocket(c, a, TRUE, TRUE)
    \/ \E c \in Conns : conn[c].sid = a /\ OnClose(c, TRUE, TRUE)
    \/ upd # <<>> /\ upd[1].sid = a /\ UpdateSucceeds
    \/ \E broken \in SUBSET Conns : DeleteSession(a, TRUE, broken)
C22_SessionsIsolated ==
    [][\A a \in Sessions :
         OperationOn(a)
            => /\ \A b \in DOMAIN storage \ {a} :
                     b \in DOMAIN storage' /\ storage'[b] = storage[b]
               /\ \A c \in Conns :
                     conn[c].state = "open" /\ conn[c].sid # a
                        => /\ conn'[c] = conn[c]
                           /\ \A i \in 1..Len(outbox') : outbox'[i].to # c]_vars

\* C23: a read of the stored record of a session that fails is reported to the caller as a failed
\* operation: the upgrade request is answered 500 and its socket is not
\* attached, the session_status message is answered with an error event, the
\* GET is answered 500.
C23_ReadFailureReported ==
    [][/\ \A c \in Conns, s \in Sessions, w \in BOOLEAN :
             s \in DOMAIN storage /\ HandleWebSocket(c, s, FALSE, w)
                => resp'.code = 500 /\ conn'[c].state # "open"
       /\ \A c \in Conns :
             conn[c].sid \in DOMAIN storage /\ SessionStatus(c, FALSE)
                => \A i \in 1..Len(outbox') : outbox'[i].type = "error"
       /\ \A s \in Sessions :
             GetSession(s, FALSE) => resp'.code = 500]_vars

\* C24: a message that does not parse, or whose type is none of ping,
\* tool_execution and session_status, is answered with one error event on the
\* socket it came from; no other socket is sent anything, and the stored
\* records and the set of live sockets stay as they are.
C24_BadMessageAnswered ==
    [][\A c \in Conns :
         BadMessage(c)
            => /\ Len(outbox') = 1
               /\ outbox'[1].to = c
               /\ outbox'[1].type = "error"
               /\ storage' = storage
               /\ websockets' = websockets
               /\ conn' = conn]_vars
\* the first of two sockets attached to a stored session was sent the error
\* event that answers its message
C24_Witness ==
    /\ outbox = <<Msg(1, "error", 0, 0, <<>>)>>
    /\ \A c \in Conns : conn[c].state = "open" /\ c \in websockets
    /\ 1 \in DOMAIN storage

\* C25: an execution does not block the session: while an execution awaits the
\* backend or the next event of its stream, the handler that started it has
\* acknowledged it, and a ping, a session_status, a GET, a POST, the close of
\* the socket and the request of another execution can each be processed.
Running(e) == task[e].pc \in {"fetch", "read"}
C26_DeletionIsFinal ==
    [][\A s \in Sessions :
         s \notin DOMAIN storage /\ s \in DOMAIN storage'
            => \E d \in RequestData :
                  CreateSession(s, d, TRUE) \/ CreateStreamingSession(s, d, TRUE)]_vars

\* C27: the sweep recurs: every run of the alarm that was set, also a run in
\* which a store operation fails, leaves an alarm set for the next run (so that
\* a session that stays idle and without connection is swept in the end).
C27_SweepRecurs ==
    [][\A l \in BOOLEAN, f \in {0} \cup Sessions :
         alarmAt # NoTime /\ Alarm(l, f) => alarmAt' # NoTime]_vars

\* C28: after every operation the stored websocketConnections of a session is
\* the number of sockets of that session in the set of live sockets.
LiveSockets(s) == {c \in websockets : conn[c].sid = s}
C28_CountIsLiveSet ==
    \A s \in DOMAIN storage :
        storage[s].websocketConnections = Cardinality(LiveSockets(s))

\* C29: the executor is called only for an execution that is recorded: whenever
\* a tool_execution request goes on to call the executor, the session record is
\* stored and lists that execution with status running (a request for a session
\* without record is answered with an error and calls nothing).
ExecutorCalled(e) == task[e].pc = "unused" /\ task'[e].pc = "fetch"
C29_ExecutorOnlyForRecorded ==
    [][\A e \in ExecIds :
         ExecutorCalled(e) =>
             /\ task'[e].sid \in DOMAIN storage'
             /\ HasExecution(storage'[task'[e].sid], e)
             /\ ExecutionOf(storage'[task'[e].sid], e).status = "running"]_vars

\* C30: a DELETE that is answered 404 has no effect: no socket leaves the set
\* of live sockets or is closed, no message is sent, and the store is unchanged.
C30_FailedDeleteChangesNothing ==
    [][\A s \in Sessions :
         DeleteSucceeds(s) /\ resp'.code = 404
            => /\ websockets' = websockets
               /\ conn' = conn
               /\ outbox' = <<>>
               /\ storage' = storage]_vars
====
